---- MODULE Spec2Model ----
(***************************************************************************)
(* Model of newdeepness MapProcessor (processing/map_processor/            *)
(* map_processor.py): one QgsTask that tiles a raster, hands each tile to  *)
(* a model-specific loop and publishes one MapProcessingResult.            *)
(*                                                                         *)
(* Threads: the task thread executes run(); the host (QGIS task manager)   *)
(* may request cancellation while run() executes and calls                 *)
(* finished(result) once run() has ended.                                  *)
(***************************************************************************)
EXTENDS Integers, Sequences, FiniteSets, TLC

\* ---------------------------------------------------------------- bounds
\* largest number of bins per axis of the grids that are explored
MaxBins == 3

\* largest extended-extent size, in pixels per axis, handed to the grid
\* computation of __init__ when it is examined on its own
MaxImgPx == 4

\* largest side, in pixels, of the images handed to
\* limit_extended_extent_image_to_base_extent_with_mask
MaxSide == 2

\* largest number of calls of that method on one task
MaxLimitCalls == 2

\* largest number of calls of tiles_generator on one task
MaxGeneratorCalls == 2

\* largest number of lookups of a model definition in one behaviour
MaxLookups == 2

\* largest number of _run_inference calls in one behaviour
MaxClicks == 3

\* tile sizes explored (params.tile_size_px); strides are 1..tile_size_px
TileSizes == {2}

VARIABLES
    pc,                    \* position of the task (see Pcs)
    IS_DEBUG,              \* newdeepness.common.defines.IS_DEBUG
    tile_size_px,          \* self.params.tile_size_px
    stride_px,             \* self.stride_px
    img_size_x_pixels,     \* self.img_size_x_pixels
    img_size_y_pixels,     \* self.img_size_y_pixels
    x_bins_number,         \* self.x_bins_number
    y_bins_number,         \* self.y_bins_number
    area_mask_img,         \* self.area_mask_img
    base_extent_bbox_in_full_image, \* self.base_extent_bbox_in_full_image
    _processing_result,    \* self._processing_result
    _processing_finished,  \* self._processing_finished
    y_bin_number,          \* loop variable of tiles_generator
    x_bin_number,          \* loop variable of tiles_generator
    visited,               \* bins the generator has visited, in order
    progress,              \* values passed to setProgress, in order
    fetched,               \* tile_no of every get_tile_image call, in order
    yielded,               \* tile_no of every tile yielded, in order
    processed,             \* tile_no of every tile the callback completed
    assembled,             \* the result assembly of _run completed
    isCanceled,            \* QgsTask cancellation flag
    cancelDuringIteration, \* history: cancel() arrived after a tile was yielded
                           \* and before the last bin was finished
    cancelChecks,          \* history: number of reads of the cancellation flag
    cancelObserved,        \* history: a read of the flag returned true
    raised,                \* history: the exception _run raised (NoException if none)
    escaped,               \* the exception that left run() or __init__ to its caller
    emitted,               \* results emitted through finished_signal, in order
    full_img,              \* the caller's buffer handed to
                           \* limit_extended_extent_image_to_base_extent_with_mask
    result_imgs,           \* the images that method returned, in order
    generator_calls,       \* number of calls of tiles_generator on this task
    first_call,            \* history: what the first generator visited and yielded
    lookups,               \* calls of ModelDefinition's lookups with their outcomes
    _model_wrapper,        \* dock widget: self._model_wrapper
    comboBox_modelType,    \* dock widget: model type selected in the combo box
    clicks                 \* dock widget: what each _run_inference call did

geomVars == <<IS_DEBUG, tile_size_px, stride_px, img_size_x_pixels,
              img_size_y_pixels, x_bins_number, y_bins_number, area_mask_img,
              base_extent_bbox_in_full_image>>
loopVars == <<y_bin_number, x_bin_number, visited, progress, fetched, yielded,
              processed, assembled>>
cancelVars == <<isCanceled, cancelDuringIteration>>
checkVars == <<cancelChecks, cancelObserved>>
resultVars == <<_processing_result, _processing_finished, raised, escaped>>
asmVars == <<full_img, result_imgs>>
callVars == <<generator_calls, first_call>>
dockVars == <<_model_wrapper, comboBox_modelType, clicks>>
pluginVars == <<lookups, dockVars>>
vars == <<pc, geomVars, loopVars, cancelVars, checkVars, resultVars, emitted,
          asmVars, callVars, pluginVars>>

\* ------------------------------------------------------------ value types
NoException == [type |-> "None", text |-> "", tile_no |-> -1]

\* an error raised while tile number t was handled
TileError(type, t) == [type |-> type, text |-> type, tile_no |-> t]

\* an error raised by a collaborator of __init__
CtorError(type) == [type |-> type, text |-> type, tile_no |-> -1]

\* a message is the sequence of its text fragments
MapProcessingResultSuccess ==
    [kind |-> "Success", message |-> <<>>, exception |-> NoException]

MapProcessingResultCanceled ==
    [kind |-> "Cancelled", message |-> <<>>, exception |-> NoException]

MapProcessingResultFailed(message, exception) ==
    [kind |-> "Failed", message |-> message, exception |-> exception]

\* the object does not exist (its constructor raised)
NoResult == [kind |-> "None", message |-> <<>>, exception |-> NoException]

PlaceholderMessage == <<"Failed to get processing result!">>
UnhandledExceptionMessage ==
    <<"Unhandled exception occurred. See Python Console for details">>
UnhandledProcessingErrorMessage == <<"Unhandled processing error!">>

\* ------------------------------------------------------------- area mask
\* the mask is absent (None) or a boolean grid, kept as its set of true pixels
NoMask == [present |-> FALSE, pixels |-> {}]

Rect(y0, y1, x0, x1) == {<<y, x>> : y \in y0..y1, x \in x0..x1}

\* masks explored for an image of h rows and w columns: a single pixel, or
\* the rectangle from the origin to a pixel, or no true pixel at all
MaskChoices(h, w) ==
    {NoMask, [present |-> TRUE, pixels |-> {}]}
    \cup {[present |-> TRUE, pixels |-> {<<y, x>>}] : y \in 0..(h-1), x \in 0..(w-1)}
    \cup {[present |-> TRUE, pixels |-> Rect(0, y, 0, x)] : y \in 0..(h-1), x \in 0..(w-1)}

\* ------------------------------------------------------------- arithmetic
\* Python round(a / b) for b > 0: to nearest, ties to even
PyRoundDiv(a, b) ==
    LET q == a \div b
        r == a % b
    IN  IF 2 * r < b THEN q
        ELSE IF 2 * r > b THEN q + 1
        ELSE IF q % 2 = 0 THEN q ELSE q + 1

\* variant of BinsNumber: the first tile is not counted
BinsNumberWithoutFirstTile(img_size, tile_size, stride) ==
    PyRoundDiv(img_size - tile_size, stride)

\* variant of BinsNumber: one bin too many
BinsNumberWithExtraBin(img_size, tile_size, stride) ==
    PyRoundDiv(img_size - tile_size, stride) + 2

\* __init__, lines 93-96: round((img_size - tile_size) / stride) + 1
BinsNumber(img_size, tile_size, stride) ==
    PyRoundDiv(img_size - tile_size, stride) + 1

\* range(n)
Range(n) == 0..(n - 1)

\* variant of TileNo: the row is scaled by the number of rows
TileNoScaledByRows(y_bin, x_bin) == y_bin * y_bins_number + x_bin

\* tiles_generator, line 166
TileNo(y_bin, x_bin) == y_bin * x_bins_number + x_bin

total_tiles == x_bins_number * y_bins_number

\* TileParams.is_tile_within_mask: true when the mask is absent or at least
\* one true pixel lies inside the tile's pixel box
is_tile_within_mask(y_bin, x_bin, mask) ==
    \/ ~mask.present
    \/ \E p \in mask.pixels :
          /\ p[1] \in (y_bin * stride_px)..(y_bin * stride_px + tile_size_px - 1)
          /\ p[2] \in (x_bin * stride_px)..(x_bin * stride_px + tile_size_px - 1)

\* variant of SkipTile: no tile is skipped
SkipTileNever(y_bin, x_bin) == FALSE

\* variant of SkipTile: the test of line 177 without its "not"
SkipTileInverted(y_bin, x_bin) == is_tile_within_mask(y_bin, x_bin, area_mask_img)

\* tiles_generator, line 177: the tile lies outside of the mask
SkipTile(y_bin, x_bin) == ~is_tile_within_mask(y_bin, x_bin, area_mask_img)

\* ------------------------------------------------------- extents and boxes
\* pixel sizes of an extended extent: the base extent grown until a whole
\* number of strides follows the first tile (calculate_extended_processing_extent)
ExtendedImgSizes(tile_size, stride) ==
    {tile_size + k * stride : k \in 0..(MaxBins - 1)}

\* BoundingBox: inclusive pixel coordinates
BoundingBox(x_min, x_max, y_min, y_max) ==
    [x_min |-> x_min, x_max |-> x_max, y_min |-> y_min, y_max |-> y_max]

\* no bounding box (no object)
NoBoundingBox == BoundingBox(0, -1, 0, -1)

\* the bounding boxes contained in an image of h rows and w columns
BoundingBoxesIn(h, w) ==
    {b \in [x_min : 0..(w - 1), x_max : 0..(w - 1),
            y_min : 0..(h - 1), y_max : 0..(h - 1)] :
        b.x_min <= b.x_max /\ b.y_min <= b.y_max}

\* the box of the base extent when the extended extent adds no margin
WholeImageBoundingBox(h, w) == BoundingBox(0, w - 1, 0, h - 1)

\* no image buffer
NoImage == <<>>

\* ----------------------------------------------------------------- images
\* an image is a function from its pixels <<y, x>> to their values
Pixels(h, w) == Rect(0, h - 1, 0, w - 1)

\* images explored: every pixel with a value of its own, or all pixels alike
FullImages(h, w) ==
    {[p \in Pixels(h, w) |-> p[1] * w + p[2] + 1], [p \in Pixels(h, w) |-> 1]}

\* every mask of an image of h rows and w columns
AllMasks(h, w) ==
    {NoMask} \cup {[present |-> TRUE, pixels |-> S] : S \in SUBSET Pixels(h, w)}

\* cv2.copyTo(src, mask) without dst: a new image, zero where the mask is false
copyTo(src, mask) ==
    [p \in DOMAIN src |-> IF ~mask.present \/ p \in mask.pixels THEN src[p] ELSE 0]

\* img[y0:y1, x0:x1] with the clamping of Python slices, re-indexed from 0
Slice(img, y0, y1, x0, x1) ==
    LET ys == {p[1] : p \in DOMAIN img} \cap y0..(y1 - 1)
        xs == {p[2] : p \in DOMAIN img} \cap x0..(x1 - 1)
    IN  [q \in Rect(0, Cardinality(ys) - 1, 0, Cardinality(xs) - 1) |->
            img[<<y0 + q[1], x0 + q[2]>>]]

\* variant of Crop: the upper bounds of the box are taken as exclusive
CropExclusive(img, b) == Slice(img, b.y_min, b.y_max, b.x_min, b.x_max)

\* lines 154-155: full_img[b.y_min:b.y_max+1, b.x_min:b.x_max+1]
Crop(img, b) == Slice(img, b.y_min, b.y_max + 1, b.x_min, b.x_max + 1)

\* limit_extended_extent_image_to_base_extent_with_mask(full_img): the value
\* returned
LimitedImage(img) ==
    Crop(copyTo(img, area_mask_img), base_extent_bbox_in_full_image)

\* ------------------------------------------------------------------ Init
Pcs == {"ctor_raised", "created", "iter", "yielded", "process", "assemble",
        "stored", "ran", "raised", "done", "limit", "no_task"}
RunningPcs == {"iter", "yielded", "process", "assemble", "stored"}
IteratingPcs == {"iter", "yielded", "process"}

\* errors that a collaborator of __init__ can raise
CtorFaults == {"InvalidAreaError", "MaskRasterizationError"}

\* MapProcessor.__init__ completed
InitConstructed ==
    /\ pc = "created"
    /\ IS_DEBUG \in BOOLEAN
    /\ tile_size_px \in TileSizes
    /\ stride_px \in 1..tile_size_px
    /\ img_size_x_pixels \in ExtendedImgSizes(tile_size_px, stride_px)
    /\ img_size_y_pixels \in ExtendedImgSizes(tile_size_px, stride_px)
    /\ base_extent_bbox_in_full_image =
          WholeImageBoundingBox(img_size_y_pixels, img_size_x_pixels)
    /\ x_bins_number = BinsNumber(img_size_x_pixels, tile_size_px, stride_px)
    /\ y_bins_number = BinsNumber(img_size_y_pixels, tile_size_px, stride_px)
    /\ area_mask_img \in MaskChoices(img_size_y_pixels, img_size_x_pixels)
    /\ _processing_result = MapProcessingResultFailed(PlaceholderMessage, NoException)
    /\ _processing_finished = FALSE
    /\ escaped = NoException

\* MapProcessor.__init__ raised: no task object exists
InitRaised ==
    /\ pc = "ctor_raised"
    /\ IS_DEBUG \in BOOLEAN
    /\ tile_size_px \in TileSizes
    /\ stride_px \in 1..tile_size_px
    /\ img_size_x_pixels = 0 /\ img_size_y_pixels = 0
    /\ x_bins_number = 0 /\ y_bins_number = 0
    /\ area_mask_img = NoMask
    /\ base_extent_bbox_in_full_image = NoBoundingBox
    /\ _processing_result = NoResult
    /\ _processing_finished = FALSE
    /\ \E f \in CtorFaults \cup {"Exception"} : escaped = CtorError(f)

\* the task has not run and none of its methods was called
NotStarted ==
    /\ y_bin_number = 0 /\ x_bin_number = 0
    /\ visited = <<>> /\ progress = <<>> /\ fetched = <<>> /\ yielded = <<>>
    /\ processed = <<>> /\ assembled = FALSE
    /\ isCanceled = FALSE /\ cancelDuringIteration = FALSE
    /\ cancelChecks = 0 /\ cancelObserved = FALSE
    /\ raised = NoException
    /\ emitted = <<>>
    /\ result_imgs = <<>>
    /\ generator_calls = 0
    /\ first_call = [visited |-> <<>>, yielded |-> <<>>]

\* no lookup was made and the dock widget, with no model loaded, was not used
PluginIdle ==
    /\ lookups = <<>>
    /\ _model_wrapper = "None"
    /\ comboBox_modelType = "SEGMENTATION"
    /\ clicks = <<>>

Init ==
    /\ InitConstructed \/ InitRaised
    /\ NotStarted
    /\ PluginIdle
    /\ full_img = NoImage

\* ------------------------------------------------------------------ run()
\* variant of RunReturns: the returned value is not stored
RunReturnsDropped(v) ==
    /\ UNCHANGED <<_processing_result, _processing_finished, raised, escaped>>
    /\ pc' = "stored"

\* run(), line 117: _run returned value v
RunReturns(v) ==
    /\ _processing_result' = v
    /\ _processing_finished' = _processing_finished
    /\ raised' = raised
    /\ escaped' = escaped
    /\ pc' = "stored"

\* variant of RunRaises: the Failed result does not carry the exception
RunRaisesNoCause(e) ==
    /\ _processing_result' = MapProcessingResultFailed(UnhandledExceptionMessage, NoException)
    /\ _processing_finished' = _processing_finished
    /\ raised' = e
    /\ IF IS_DEBUG
       THEN escaped' = e /\ pc' = "raised"
       ELSE escaped' = escaped /\ pc' = "stored"

\* variant of RunRaises: the exception is logged and the run counts as a success
RunRaisesAsSuccess(e) ==
    /\ _processing_result' = MapProcessingResultSuccess
    /\ _processing_finished' = _processing_finished
    /\ raised' = e
    /\ IF IS_DEBUG
       THEN escaped' = e /\ pc' = "raised"
       ELSE escaped' = escaped /\ pc' = "stored"

\* variant of RunRaises: the message quotes the exception and its tile
RunRaisesVerbatim(e) ==
    /\ _processing_result' =
          MapProcessingResultFailed(<<e.text, ToString(e.tile_no)>>, e)
    /\ _processing_finished' = _processing_finished
    /\ raised' = e
    /\ IF IS_DEBUG
       THEN escaped' = e /\ pc' = "raised"
       ELSE escaped' = escaped /\ pc' = "stored"

\* run(), lines 118-123: _run raised e
RunRaises(e) ==
    /\ _processing_result' = MapProcessingResultFailed(UnhandledExceptionMessage, e)
    /\ _processing_finished' = _processing_finished
    /\ raised' = e
    /\ IF IS_DEBUG
       THEN escaped' = e /\ pc' = "raised"
       ELSE escaped' = escaped /\ pc' = "stored"

\* variant of Start: the finished flag is raised when run() begins
StartMarksFinished ==
    /\ pc = "created"
    /\ pc' = "iter"
    /\ generator_calls' = 1
    /\ _processing_finished' = TRUE
    /\ UNCHANGED <<geomVars, pluginVars, asmVars, first_call, loopVars, cancelVars,
                   checkVars, _processing_result, raised, escaped, emitted>>

\* the host starts the task: run() enters _run, which starts the generator
Start ==
    /\ pc = "created"
    /\ pc' = "iter"
    /\ generator_calls' = 1
    /\ UNCHANGED <<geomVars, pluginVars, asmVars, first_call, loopVars, cancelVars, checkVars,
                   resultVars, emitted>>

\* variant of ProgressValue: the tile counts as done when it is reported
ProgressValueOfFinishedTile(tile_no) ==
    [num |-> (tile_no + 1) * 100, den |-> total_tiles]

\* tiles_generator, line 167: tile_no / total_tiles * 100, kept as a fraction
ProgressValue(tile_no) == [num |-> tile_no * 100, den |-> total_tiles]

\* variant of NextBin: x_bin outer, y_bin inner
NextBinColumnMajor(y, x) ==
    IF y + 1 < y_bins_number THEN <<y + 1, x>> ELSE <<0, x + 1>>

\* the loop position after bin (y, x)
NextBin(y, x) ==
    IF x + 1 < x_bins_number THEN <<y, x + 1>> ELSE <<y + 1, 0>>

\* one iteration of the loops of tiles_generator, up to its continue, its
\* yield or the exception of get_tile_image
GenVisit ==
    /\ pc = "iter"
    /\ y_bin_number \in Range(y_bins_number)
    /\ x_bin_number \in Range(x_bins_number)
    /\ LET tile_no == TileNo(y_bin_number, x_bin_number)
       IN  /\ visited' = Append(visited, <<y_bin_number, x_bin_number>>)
           /\ progress' = Append(progress, ProgressValue(tile_no))
           /\ IF SkipTile(y_bin_number, x_bin_number)
              THEN \* continue
                   /\ y_bin_number' = NextBin(y_bin_number, x_bin_number)[1]
                   /\ x_bin_number' = NextBin(y_bin_number, x_bin_number)[2]
                   /\ pc' = "iter"
                   /\ UNCHANGED <<fetched, yielded, resultVars>>
              ELSE /\ fetched' = Append(fetched, tile_no)
                   /\ UNCHANGED <<y_bin_number, x_bin_number>>
                   /\ \/ \* get_tile_image returned: yield
                         /\ yielded' = Append(yielded, tile_no)
                         /\ pc' = "yielded"
                         /\ UNCHANGED resultVars
                      \/ \* get_tile_image raised
                         /\ yielded' = yielded
                         /\ RunRaises(TileError("DataAccessError", tile_no))
    /\ UNCHANGED <<geomVars, pluginVars, asmVars, callVars, processed, assembled, cancelVars, checkVars, emitted>>

\* the generator is exhausted: the for loop of _run ends
GenExhausted ==
    /\ pc = "iter"
    /\ ~(y_bin_number \in Range(y_bins_number) /\ x_bin_number \in Range(x_bins_number))
    /\ pc' = "assemble"
    /\ UNCHANGED <<geomVars, pluginVars, asmVars, callVars, loopVars, cancelVars, checkVars, resultVars, emitted>>

\* variant of ConsumerCheck: the flag is read but the loop goes on
ConsumerCheckKeepsGoing ==
    /\ pc = "yielded"
    /\ cancelChecks' = cancelChecks + 1
    /\ cancelObserved' = (cancelObserved \/ isCanceled)
    /\ pc' = "process"
    /\ UNCHANGED <<geomVars, pluginVars, asmVars, callVars, loopVars, cancelVars, resultVars, emitted>>

\* _run, per yielded tile: the cancellation check
ConsumerCheck ==
    /\ pc = "yielded"
    /\ cancelChecks' = cancelChecks + 1
    /\ IF isCanceled
       THEN /\ cancelObserved' = TRUE
            /\ RunReturns(MapProcessingResultCanceled)
       ELSE /\ cancelObserved' = cancelObserved
            /\ pc' = "process"
            /\ UNCHANGED resultVars
    /\ UNCHANGED <<geomVars, pluginVars, asmVars, callVars, loopVars, cancelVars, emitted>>

\* _run, per yielded tile: the inference callback, then the generator resumes
ProcessTile ==
    /\ pc = "process"
    /\ LET tile_no == TileNo(y_bin_number, x_bin_number)
       IN  \/ /\ processed' = Append(processed, tile_no)
              /\ y_bin_number' = NextBin(y_bin_number, x_bin_number)[1]
              /\ x_bin_number' = NextBin(y_bin_number, x_bin_number)[2]
              /\ pc' = "iter"
              /\ UNCHANGED resultVars
           \/ /\ RunRaises(TileError("InferenceError", tile_no))
              /\ UNCHANGED <<processed, y_bin_number, x_bin_number>>
    /\ UNCHANGED <<geomVars, pluginVars, asmVars, callVars, visited, progress, fetched, yielded, assembled,
                   cancelVars, checkVars, emitted>>

\* _run, after the loop: the result is assembled and returned
Assemble ==
    /\ pc = "assemble"
    /\ assembled' = TRUE
    /\ RunReturns(MapProcessingResultSuccess)
    /\ UNCHANGED <<geomVars, pluginVars, asmVars, callVars, y_bin_number, x_bin_number, visited, progress,
                   fetched, yielded, processed, cancelVars, checkVars, emitted>>

\* variant of RunFinish: the mask is released when the run ends
RunFinishReleasesMask ==
    /\ pc = "stored"
    /\ _processing_finished' = TRUE
    /\ pc' = "ran"
    /\ area_mask_img' = NoMask
    /\ UNCHANGED <<pluginVars, IS_DEBUG, tile_size_px, stride_px, img_size_x_pixels,
                   img_size_y_pixels, x_bins_number, y_bins_number,
                   base_extent_bbox_in_full_image, asmVars, callVars, loopVars,
                   cancelVars, checkVars, _processing_result, raised, escaped,
                   emitted>>

\* run(), lines 125-126
RunFinish ==
    /\ pc = "stored"
    /\ _processing_finished' = TRUE
    /\ pc' = "ran"
    /\ UNCHANGED <<geomVars, pluginVars, asmVars, callVars, loopVars, cancelVars, checkVars, _processing_result,
                   raised, escaped, emitted>>

\* variant of finished: the test of result is inverted
finishedInverted(result) ==
    /\ _processing_result' =
          IF result
          THEN MapProcessingResultFailed(UnhandledProcessingErrorMessage, NoException)
          ELSE _processing_result
    /\ emitted' = Append(emitted, _processing_result')

\* variant of finished: the failure branch emits too
finishedEmitsTwice(result) ==
    /\ _processing_result' =
          IF ~result
          THEN MapProcessingResultFailed(UnhandledProcessingErrorMessage, NoException)
          ELSE _processing_result
    /\ emitted' = IF ~result
                  THEN emitted \o <<_processing_result', _processing_result'>>
                  ELSE Append(emitted, _processing_result')

\* variant of finished: the stored result is emitted whatever result is
finishedKeepsStored(result) ==
    /\ _processing_result' = _processing_result
    /\ emitted' = Append(emitted, _processing_result)

\* finished(result)
finished(result) ==
    /\ _processing_result' =
          IF ~result
          THEN MapProcessingResultFailed(UnhandledProcessingErrorMessage, NoException)
          ELSE _processing_result
    /\ emitted' = Append(emitted, _processing_result')

\* the host reports the end of run(): finished(True) when run() returned
\* True, finished(False) when it did not return
HostFinished ==
    /\ pc \in {"ran", "raised"}
    /\ finished(pc = "ran")
    /\ pc' = "done"
    /\ UNCHANGED <<geomVars, pluginVars, asmVars, callVars, loopVars, cancelVars, checkVars,
                   _processing_finished, raised, escaped>>

\* the host requests cancellation of the running task
Cancel ==
    /\ pc \in RunningPcs
    /\ ~isCanceled
    /\ isCanceled' = TRUE
    /\ cancelDuringIteration' =
          (/\ pc \in IteratingPcs
           /\ Len(yielded) > 0
           /\ y_bin_number \in Range(y_bins_number)
           /\ x_bin_number \in Range(x_bins_number))
    /\ UNCHANGED <<pc, geomVars, pluginVars, asmVars, callVars, loopVars, checkVars, resultVars, emitted>>

TaskStep ==
    \/ GenVisit
    \/ GenExhausted
    \/ ConsumerCheck
    \/ ProcessTile
    \/ Assemble
    \/ RunFinish

Next ==
    \/ Start
    \/ TaskStep
    \/ HostFinished
    \/ Cancel

Spec == Init /\ [][Next]_vars

\* __init__ completed on an extended extent of any size: lines 81-96 applied to
\* whatever calculate_extended_processing_extent handed over, no mask layer
InitAnyExtent ==
    /\ pc = "created"
    /\ IS_DEBUG \in BOOLEAN
    /\ tile_size_px \in TileSizes
    /\ stride_px \in 1..tile_size_px
    /\ img_size_x_pixels \in 1..MaxImgPx
    /\ img_size_y_pixels \in 1..MaxImgPx
    /\ base_extent_bbox_in_full_image =
          WholeImageBoundingBox(img_size_y_pixels, img_size_x_pixels)
    /\ x_bins_number = BinsNumber(img_size_x_pixels, tile_size_px, stride_px)
    /\ y_bins_number = BinsNumber(img_size_y_pixels, tile_size_px, stride_px)
    /\ area_mask_img = NoMask
    /\ _processing_result = MapProcessingResultFailed(PlaceholderMessage, NoException)
    /\ _processing_finished = FALSE
    /\ escaped = NoException
    /\ NotStarted
    /\ PluginIdle
    /\ full_img = NoImage

\* the task on extended extents of any size
ExtentSpec == InitAnyExtent /\ [][Next]_vars

\* ------------------------------------- tiles_generator called once more
\* variant of GenRestart: the loop position survives from the previous call
GenRestartResumes ==
    /\ pc = "assemble"
    /\ generator_calls \in 1..(MaxGeneratorCalls - 1)
    /\ generator_calls' = generator_calls + 1
    /\ first_call' = IF generator_calls = 1
                     THEN [visited |-> visited, yielded |-> yielded]
                     ELSE first_call
    /\ UNCHANGED <<y_bin_number, x_bin_number>>
    /\ visited' = <<>> /\ progress' = <<>> /\ fetched' = <<>>
    /\ yielded' = <<>> /\ processed' = <<>>
    /\ pc' = "iter"
    /\ UNCHANGED <<geomVars, pluginVars, asmVars, assembled, cancelVars, checkVars,
                   resultVars, emitted>>

\* tiles_generator() is called again on the same task after the previous
\* generator was exhausted: lines 162-165, a new generator whose range loops
\* start anew; the per-call records start empty
GenRestart ==
    /\ pc = "assemble"
    /\ generator_calls \in 1..(MaxGeneratorCalls - 1)
    /\ generator_calls' = generator_calls + 1
    /\ first_call' = IF generator_calls = 1
                     THEN [visited |-> visited, yielded |-> yielded]
                     ELSE first_call
    /\ y_bin_number' = 0 /\ x_bin_number' = 0
    /\ visited' = <<>> /\ progress' = <<>> /\ fetched' = <<>>
    /\ yielded' = <<>> /\ processed' = <<>>
    /\ pc' = "iter"
    /\ UNCHANGED <<geomVars, pluginVars, asmVars, assembled, cancelVars, checkVars,
                   resultVars, emitted>>

TwoCallNext ==
    \/ Start
    \/ GenVisit
    \/ GenExhausted
    \/ ConsumerCheck
    \/ ProcessTile
    \/ GenRestart

\* a task whose generator is consumed to its end, call after call
TwoCallSpec == Init /\ [][TwoCallNext]_vars

\* --------------- limit_extended_extent_image_to_base_extent_with_mask
\* a constructed task with tiles of one pixel, whose _run holds the assembled
\* full image and is about to limit it
InitLimit ==
    /\ pc = "limit"
    /\ IS_DEBUG = FALSE
    /\ tile_size_px = 1
    /\ stride_px = 1
    /\ img_size_x_pixels \in 1..MaxSide
    /\ img_size_y_pixels \in 1..MaxSide
    /\ x_bins_number = BinsNumber(img_size_x_pixels, tile_size_px, stride_px)
    /\ y_bins_number = BinsNumber(img_size_y_pixels, tile_size_px, stride_px)
    /\ area_mask_img \in AllMasks(img_size_y_pixels, img_size_x_pixels)
    /\ base_extent_bbox_in_full_image \in
          BoundingBoxesIn(img_size_y_pixels, img_size_x_pixels)
    /\ full_img \in FullImages(img_size_y_pixels, img_size_x_pixels)
    /\ _processing_result = MapProcessingResultFailed(PlaceholderMessage, NoException)
    /\ _processing_finished = FALSE
    /\ escaped = NoException
    /\ NotStarted
    /\ PluginIdle

\* variant of LimitCall: the mask is applied in place (dst = full_img)
LimitCallInPlace ==
    /\ pc = "limit"
    /\ Len(result_imgs) < MaxLimitCalls
    /\ full_img' = copyTo(full_img, area_mask_img)
    /\ result_imgs' = Append(result_imgs, Crop(full_img', base_extent_bbox_in_full_image))
    /\ UNCHANGED <<pc, geomVars, pluginVars, loopVars, cancelVars, checkVars, resultVars,
                   emitted, callVars>>

\* limit_extended_extent_image_to_base_extent_with_mask(full_img), lines
\* 143-156: the masked copy is bound to the local name only
LimitCall ==
    /\ pc = "limit"
    /\ Len(result_imgs) < MaxLimitCalls
    /\ full_img' = full_img
    /\ result_imgs' = Append(result_imgs, LimitedImage(full_img))
    /\ UNCHANGED <<pc, geomVars, pluginVars, loopVars, cancelVars, checkVars, resultVars,
                   emitted, callVars>>

LimitSpec == InitLimit /\ [][LimitCall]_vars

\* every method of a constructed task: the run with its notification, and
\* limit_extended_extent_image_to_base_extent_with_mask on an assembled image
MethodsSpec == (Init \/ InitLimit) /\ [][Next \/ LimitCall]_vars

\* ------------------------------------------------------ ModelDefinition
\* no MapProcessor was constructed
InitNoTask ==
    /\ pc = "no_task"
    /\ IS_DEBUG = FALSE
    /\ tile_size_px = 0 /\ stride_px = 0
    /\ img_size_x_pixels = 0 /\ img_size_y_pixels = 0
    /\ x_bins_number = 0 /\ y_bins_number = 0
    /\ area_mask_img = NoMask
    /\ base_extent_bbox_in_full_image = NoBoundingBox
    /\ _processing_result = NoResult
    /\ _processing_finished = FALSE
    /\ escaped = NoException
    /\ NotStarted
    /\ full_img = NoImage

\* ModelType
ModelTypes == {"SEGMENTATION", "REGRESSION", "DETECTION", "SUPERRESOLUTION"}

\* get_model_definitions(): the registered definitions, in order
get_model_definitions ==
    <<[model_type |-> "SEGMENTATION", model_class |-> "Segmentor",
       parameters_class |-> "SegmentationParameters",
       map_processor_class |-> "MapProcessorSegmentation"],
      [model_type |-> "REGRESSION", model_class |-> "Regressor",
       parameters_class |-> "RegressionParameters",
       map_processor_class |-> "MapProcessorRegression"],
      [model_type |-> "DETECTION", model_class |-> "Detector",
       parameters_class |-> "DetectionParameters",
       map_processor_class |-> "MapProcessorDetection"],
      [model_type |-> "SUPERRESOLUTION", model_class |-> "Superresolution",
       parameters_class |-> "SuperresolutionParameters",
       map_processor_class |-> "MapProcessorSuperresolution"]>>

\* the registered parameters classes whose only base is MapProcessingParameters
PlainParametersClasses ==
    {"RegressionParameters", "DetectionParameters", "SuperresolutionParameters"}

RegisteredParametersClasses == PlainParametersClasses \cup {"SegmentationParameters"}

\* the class of a params object: its name and the registered classes among
\* its proper ancestors. SegmentationParameters, whose definition is not at
\* hand, may derive from any of the other registered classes; "Subclass" is
\* any class that is not registered (MapProcessingParameters itself when it
\* has no registered ancestor)
ParamsClasses ==
    {[name |-> c, bases |-> {}] : c \in PlainParametersClasses}
    \cup {[name |-> "SegmentationParameters", bases |-> B] :
             B \in SUBSET PlainParametersClasses}
    \cup {[name |-> "Subclass", bases |-> B] : B \in SUBSET RegisteredParametersClasses}

\* type(params) == cls
IsExactly(params, cls) == params.name = cls

\* isinstance(params, cls)
isinstance(params, cls) == params.name = cls \/ cls \in params.bases

Returned(definition) == [ok |-> TRUE, definition |-> definition, exception |-> "None"]

Raised(exception) ==
    [ok |-> FALSE, definition |-> [model_type |-> "None"], exception |-> exception]

Min(S) == CHOOSE i \in S : \A j \in S : i <= j

\* variant of get_definition_for_params: without the isinstance loop
get_definition_for_paramsExactOnly(params) ==
    LET defs == get_model_definitions
        exact == {i \in DOMAIN defs : IsExactly(params, defs[i].parameters_class)}
    IN  IF exact # {} THEN Returned(defs[Min(exact)])
        ELSE Raised("Exception")

\* get_definition_for_params(params), lines 71-82
get_definition_for_params(params) ==
    LET defs == get_model_definitions
        exact == {i \in DOMAIN defs : IsExactly(params, defs[i].parameters_class)}
        inst == {i \in DOMAIN defs : isinstance(params, defs[i].parameters_class)}
    IN  IF exact # {} THEN Returned(defs[Min(exact)])
        ELSE IF inst # {} THEN Returned(defs[Min(inst)])
        ELSE Raised("Exception")

\* get_definition_for_type(model_type), lines 63-69
get_definition_for_type(model_type) ==
    LET defs == get_model_definitions
        found == {i \in DOMAIN defs : defs[i].model_type = model_type}
    IN  IF found # {} THEN Returned(defs[Min(found)])
        ELSE Raised("Exception")

InitLookups ==
    /\ InitNoTask
    /\ PluginIdle

\* a caller looks a definition up by parameters
LookupForParams ==
    /\ pc = "no_task"
    /\ Len(lookups) < MaxLookups
    /\ \E params \in ParamsClasses :
          lookups' = Append(lookups, [call |-> "get_definition_for_params",
                                      arg |-> params,
                                      result |-> get_definition_for_params(params)])
    /\ UNCHANGED <<pc, geomVars, dockVars, asmVars, callVars, loopVars, cancelVars,
                   checkVars, resultVars, emitted>>

\* a caller looks a definition up by model type
LookupForType ==
    /\ pc = "no_task"
    /\ Len(lookups) < MaxLookups
    /\ \E model_type \in ModelTypes \cup {"OTHER"} :
          lookups' = Append(lookups, [call |-> "get_definition_for_type",
                                      arg |-> model_type,
                                      result |-> get_definition_for_type(model_type)])
    /\ UNCHANGED <<pc, geomVars, dockVars, asmVars, callVars, loopVars, cancelVars,
                   checkVars, resultVars, emitted>>

LookupSpec == InitLookups /\ [][LookupForParams \/ LookupForType]_vars

\* ---------------------------------------------------------- dock widget
\* get_inference_parameters(), lines 266-280
get_inference_parameters ==
    IF _model_wrapper = "None" THEN Raised("OperationFailedException")
    ELSE LET model_type == get_definition_for_type(comboBox_modelType).definition.model_type
         IN  IF model_type = "SEGMENTATION"
             THEN Returned([model_type |-> model_type,
                            parameters_class |-> "SegmentationParameters"])
             ELSE IF model_type = "DETECTION"
             THEN Returned([model_type |-> model_type,
                            parameters_class |-> "DetectionParameters"])
             ELSE Raised("Exception")

\* what one call of _run_inference did: the state it found, the calls it
\* made in order, and the exception that left it
Click(params, events, exception) ==
    [model_loaded |-> _model_wrapper # "None",
     model_type |-> comboBox_modelType,
     params |-> params,
     events |-> events,
     escaped |-> exception]

\* variant of _run_inference: the configuration is saved before the
\* parameters are built
_run_inferenceSavesFirst ==
    /\ pc = "no_task"
    /\ Len(clicks) < MaxClicks
    /\ LET params == get_inference_parameters
       IN  clicks' = Append(clicks,
              IF params.ok
              THEN Click(params, <<"_save_ui_to_config",
                                   "run_model_inference_signal.emit">>, "None")
              ELSE IF params.exception = "OperationFailedException"
              THEN Click(params, <<"_save_ui_to_config", "pushMessage",
                                   "QMessageBox.critical">>, "None")
              ELSE Click(params, <<"_save_ui_to_config">>, params.exception))
    /\ UNCHANGED <<pc, geomVars, lookups, _model_wrapper, comboBox_modelType,
                   asmVars, callVars, loopVars, cancelVars, checkVars, resultVars,
                   emitted>>

\* _run_inference(), lines 322-332
_run_inference ==
    /\ pc = "no_task"
    /\ Len(clicks) < MaxClicks
    /\ LET params == get_inference_parameters
       IN  clicks' = Append(clicks,
              IF params.ok
              THEN Click(params, <<"_save_ui_to_config",
                                   "run_model_inference_signal.emit">>, "None")
              ELSE IF params.exception = "OperationFailedException"
              THEN Click(params, <<"pushMessage", "QMessageBox.critical">>, "None")
              ELSE Click(params, <<>>, params.exception))
    /\ UNCHANGED <<pc, geomVars, lookups, _model_wrapper, comboBox_modelType,
                   asmVars, callVars, loopVars, cancelVars, checkVars, resultVars,
                   emitted>>

\* _load_model_and_display_info(), lines 200-233: the wrapper is assigned
\* unless the constructor of the model class raises
_load_model_and_display_info ==
    /\ pc = "no_task"
    /\ \E constructed \in BOOLEAN :
          _model_wrapper' = IF constructed THEN "loaded" ELSE _model_wrapper
    /\ UNCHANGED <<pc, geomVars, lookups, comboBox_modelType, clicks, asmVars,
                   callVars, loopVars, cancelVars, checkVars, resultVars, emitted>>

\* the user selects a model type in comboBox_modelType
SelectModelType ==
    /\ pc = "no_task"
    /\ \E model_type \in ModelTypes : comboBox_modelType' = model_type
    /\ UNCHANGED <<pc, geomVars, lookups, _model_wrapper, clicks, asmVars,
                   callVars, loopVars, cancelVars, checkVars, resultVars, emitted>>

DockNext ==
    \/ _run_inference
    \/ _load_model_and_display_info
    \/ SelectModelType

DockSpec == InitLookups /\ [][DockNext]_vars

\* once started the task thread keeps running, and the host reports its end
FairSpec == Spec /\ WF_vars(TaskStep) /\ WF_vars(HostFinished)

\* ------------------------------------------------------- derived notions
Bins == Range(y_bins_number) \X Range(x_bins_number)

\* the generator was run to its end
Exhausted == pc = "assemble" \/ assembled

\* run() has ended, by returning or by raising
RunEnded == pc \in {"ran", "raised", "done"}

\* the bin with tile number t
BinOf(t) == <<t \div x_bins_number, t % x_bins_number>>

Intersects(b) == is_tile_within_mask(b[1], b[2], area_mask_img)

Contains(message, fragment) == \E i \in DOMAIN message : message[i] = fragment

StrictlyIncreasing(seq) ==
    \A i, j \in DOMAIN seq : i < j => seq[i] < seq[j]

\* the state of the task in terms of the state machine
\* Created -> Running -> {Succeeded, Failed, Cancelled}
TaskState ==
    IF pc \in {"ctor_raised", "no_task"} THEN "NoTask"
    ELSE IF pc = "created" THEN "Created"
    ELSE IF pc \in RunningPcs THEN "Running"
    ELSE IF _processing_result.kind = "Success" THEN "Succeeded"
    ELSE IF _processing_result.kind = "Cancelled" THEN "Cancelled"
    ELSE "Failed"

\* variant of is_busy: busy only while tiles are iterated
is_busyOnlyWhileIterating == pc \in IteratingPcs

\* is_busy(), lines 136-138: a static method that returns True
is_busy == TRUE

IsPrefix(a, b) == Len(a) <= Len(b) /\ \A i \in DOMAIN a : a[i] = b[i]

\* the bins in the order of the nested range loops: a function of the
\* parameters alone
RowMajorBins == [k \in 1..(x_bins_number * y_bins_number) |-> BinOf(k - 1)]

\* ---------------------------------------------------------------- claims

\* C1: tiles_generator visits every bin of [0, y_bins_number) x
\* [0, x_bins_number) exactly once in row-major order, the k-th bin visited
\* having tile_no = y_bin * x_bins_number + x_bin = k; the yielded tiles are a
\* subsequence of that order and the sequence is finite.
C1_RowMajorOrder ==
    /\ \A k \in DOMAIN visited :
          /\ visited[k] \in Bins
          /\ visited[k][1] * x_bins_number + visited[k][2] = k - 1
          /\ progress[k].num = (k - 1) * 100
    /\ Len(progress) = Len(visited)
    /\ Len(visited) <= x_bins_number * y_bins_number
    /\ \A b \in Bins : Cardinality({k \in DOMAIN visited : visited[k] = b}) <= 1
    /\ Exhausted =>
          \A b \in Bins : Cardinality({k \in DOMAIN visited : visited[k] = b}) = 1
    /\ StrictlyIncreasing(yielded)
    /\ \A i \in DOMAIN yielded : yielded[i] \in 0..(Len(visited) - 1)

C1_Witness ==
    /\ Exhausted
    /\ x_bins_number = 3 /\ y_bins_number = 2
    /\ Len(visited) = 6
    /\ Len(yielded) \in 1..5

\* C2: a bin is yielded if and only if its tile intersects the area mask; for
\* a bin that does not intersect, get_tile_image is not called and nothing is
\* yielded (a tile whose fetch raised is fetched but not yielded). With a mask
\* that touches one corner bin of a 3x3 grid one tile is yielded, 8 are skipped.
C2_YieldedIffWithinMask ==
    /\ \A k \in DOMAIN visited :
          LET t == k - 1
              fetchRaised == raised.type = "DataAccessError" /\ raised.tile_no = t
          IN  /\ (\E i \in DOMAIN fetched : fetched[i] = t) <=> Intersects(visited[k])
              /\ (\E i \in DOMAIN yielded : yielded[i] = t)
                    <=> (Intersects(visited[k]) /\ ~fetchRaised)
    /\ \A i \in DOMAIN fetched : fetched[i] \in 0..(Len(visited) - 1)
    /\ StrictlyIncreasing(fetched)
    /\ Exhausted => Len(yielded) = Cardinality({b \in Bins : Intersects(b)})
    /\ (Exhausted /\ Cardinality(Bins) = 9
          /\ Cardinality({b \in Bins : Intersects(b)}) = 1)
          => (Len(yielded) = 1 /\ Len(fetched) = 1 /\ Len(visited) - Len(yielded) = 8)

C2_Witness ==
    /\ Exhausted
    /\ x_bins_number = 3 /\ y_bins_number = 3
    /\ area_mask_img = [present |-> TRUE, pixels |-> {<<0, 0>>}]
    /\ visited = <<<<0, 0>>, <<0, 1>>, <<0, 2>>, <<1, 0>>, <<1, 1>>, <<1, 2>>,
                   <<2, 0>>, <<2, 1>>, <<2, 2>>>>
    /\ fetched = <<0>>
    /\ yielded = <<0>>

\* C3: the cancellation flag is read once per yielded tile, and once a read
\* has returned true no further bin is visited, fetched or yielded.
C3_CancelStopsIteration ==
    [][ /\ cancelObserved =>
              (visited' = visited /\ fetched' = fetched /\ yielded' = yielded
               /\ processed' = processed)
        /\ cancelChecks' = Len(yielded') - (IF pc' = "yielded" THEN 1 ELSE 0)
        /\ cancelObserved' => isCanceled' ]_vars

C3_Witness ==
    /\ cancelObserved
    /\ pc = "done"
    /\ x_bins_number = 3 /\ y_bins_number = 3
    /\ ~area_mask_img.present
    /\ yielded = <<0, 1, 2, 3>>
    /\ fetched = <<0, 1, 2, 3>>
    /\ cancelChecks = 4

\* C4 as stated: a run in which cancellation was requested while tiles were
\* iterated (and in which nothing raised) ends Cancelled and never stores or
\* emits a Success result.
C4_RequestedImpliesCancelled ==
    (cancelDuringIteration /\ raised = NoException) =>
        /\ _processing_result.kind # "Success"
        /\ RunEnded => _processing_result.kind = "Cancelled"
        /\ \A i \in DOMAIN emitted : emitted[i].kind = "Cancelled"

\* C4 amended: a run in which the per-tile check observed the cancellation
\* request ends Cancelled, and no Success result is stored or emitted for it.
C4_ObservedImpliesCancelled ==
    cancelObserved =>
        /\ _processing_result = MapProcessingResultCanceled
        /\ \A i \in DOMAIN emitted : emitted[i] = MapProcessingResultCanceled
        /\ pc \in {"stored", "ran", "done"}
        /\ pc = "done" => emitted = <<MapProcessingResultCanceled>>

C4_Witness ==
    /\ cancelObserved
    /\ pc = "done"
    /\ x_bins_number = 3 /\ y_bins_number = 3
    /\ processed = <<0, 1, 2>>
    /\ TaskState = "Cancelled"
    /\ emitted = <<MapProcessingResultCanceled>>

\* C5: the task follows Created -> Running -> {Succeeded, Failed, Cancelled}:
\* Running is entered only by the start of run(), a terminal state is never
\* left, and Succeeded is reached only after every bin was enumerated and the
\* result assembly completed.
AllowedTransitions ==
    {<<"Created", "Created">>, <<"Created", "Running">>, <<"Running", "Running">>,
     <<"Running", "Succeeded">>, <<"Running", "Failed">>, <<"Running", "Cancelled">>,
     <<"Succeeded", "Succeeded">>, <<"Failed", "Failed">>,
     <<"Cancelled", "Cancelled">>, <<"NoTask", "NoTask">>}

C5_StateMachine ==
    [][ /\ <<TaskState, TaskState'>> \in AllowedTransitions
        /\ (TaskState # "Running" /\ TaskState' = "Running")
              => (pc = "created" /\ pc' = "iter")
        /\ TaskState' = "Succeeded" =>
              /\ assembled'
              /\ \A b \in Bins : \E k \in DOMAIN visited' : visited'[k] = b ]_vars

C5_Witness ==
    /\ pc = "done"
    /\ TaskState = "Succeeded"
    /\ x_bins_number = 3 /\ y_bins_number = 3
    /\ Len(visited) = 9

\* C6 as stated: an exception raised inside _run does not leave run(), the
\* stored result is a Failed result carrying it, and the host receives that
\* result through finished_signal.
C6_NeverPropagates ==
    raised # NoException =>
        /\ escaped = NoException
        /\ _processing_result.kind = "Failed"
        /\ pc = "done" =>
              (emitted = <<_processing_result>> /\ emitted[1].exception = raised)

\* C6 amended: with IS_DEBUG off, an exception raised inside _run does not
\* leave run(), the stored result is a Failed result carrying it as its cause
\* and the host receives that result; with IS_DEBUG on, run() stores the
\* Failed result and re-raises the exception to its caller.
C6_CapturedUnlessDebug ==
    raised # NoException =>
        /\ ~IS_DEBUG =>
              /\ escaped = NoException
              /\ pc \in {"stored", "ran", "done"}
              /\ _processing_result.kind = "Failed"
              /\ _processing_result.exception = raised
              /\ pc = "done" => emitted = <<_processing_result>>
        /\ IS_DEBUG =>
              /\ escaped = raised
              /\ pc \in {"raised", "done"}
              /\ pc = "raised" =>
                    (_processing_result.kind = "Failed"
                     /\ _processing_result.exception = raised)

C6_Witness ==
    /\ ~IS_DEBUG
    /\ pc = "done"
    /\ raised = TileError("InferenceError", 1)
    /\ emitted = <<MapProcessingResultFailed(UnhandledExceptionMessage, raised)>>

\* C7: for every run exactly one finished_signal emission occurs, carrying one
\* result: never two, never before the run is terminal, and once the run has
\* started an emission eventually occurs.
C7_ExactlyOneNotification ==
    /\ [](/\ Len(emitted) <= 1
          /\ emitted # <<>> =>
                (/\ pc = "done"
                 /\ emitted[1] = _processing_result
                 /\ TaskState \in {"Succeeded", "Failed", "Cancelled"})
          /\ pc = "done" => Len(emitted) = 1)
    /\ [](pc \in RunningPcs => <>(Len(emitted) = 1))

C7_Witness ==
    /\ pc = "done"
    /\ IS_DEBUG
    /\ raised # NoException
    /\ Len(emitted) = 1
    /\ emitted[1].kind = "Failed"

\* C8: a per-tile failure (in get_tile_image or in the inference callback)
\* aborts the run: no later bin is visited, fetched or processed, and the run
\* ends Failed, not Succeeded.
C8_TileFailureAborts ==
    raised # NoException =>
        /\ raised.type \in {"DataAccessError", "InferenceError"}
        /\ Len(visited) = raised.tile_no + 1
        /\ \A i \in DOMAIN fetched : fetched[i] <= raised.tile_no
        /\ \A i \in DOMAIN processed : processed[i] < raised.tile_no
        /\ pc \in {"stored", "ran", "raised", "done"}
        /\ ~assembled
        /\ TaskState \in {"Running", "Failed"}
        /\ _processing_result.kind = "Failed"
        /\ \A i \in DOMAIN emitted : emitted[i].kind = "Failed"

C8_Witness ==
    /\ raised = TileError("DataAccessError", 4)
    /\ x_bins_number = 3 /\ y_bins_number = 3
    /\ processed = <<0, 1, 2, 3>>
    /\ pc = "done"
    /\ TaskState = "Failed"

\* C9 as stated: the message of the Failed result of a per-tile error quotes
\* the error and names the tile that failed.
C9_MessageNamesErrorAndTile ==
    (raised # NoException /\ pc \in {"stored", "ran", "raised"}) =>
        /\ Contains(_processing_result.message, raised.text)
        /\ Contains(_processing_result.message, ToString(raised.tile_no))

\* C9 amended: the Failed result that run() stores for a per-tile error has
\* the fixed message "Unhandled exception occurred. See Python Console for
\* details", which neither quotes the error nor names the tile; the error is
\* carried unchanged as the exception of the result.
C9_FixedMessageErrorAsCause ==
    (raised # NoException /\ pc \in {"stored", "ran", "raised"}) =>
        /\ _processing_result.kind = "Failed"
        /\ _processing_result.message = UnhandledExceptionMessage
        /\ ~Contains(_processing_result.message, raised.text)
        /\ ~Contains(_processing_result.message, ToString(raised.tile_no))
        /\ _processing_result.exception = raised

C9_Witness ==
    /\ pc = "ran"
    /\ raised = TileError("DataAccessError", 2)
    /\ _processing_result = MapProcessingResultFailed(UnhandledExceptionMessage, raised)

\* C10 as stated: an error of the extent, grid or mask construction aborts
\* the run with a Failed result delivered to the host and does not escape to
\* the caller as an exception.
C10_CtorErrorBecomesFailedResult ==
    pc = "ctor_raised" =>
        /\ escaped = NoException
        /\ _processing_result.kind = "Failed"

C12_UndersizedExtentRaises ==
    /\ (img_size_x_pixels < tile_size_px \/ img_size_y_pixels < tile_size_px) =>
          (pc = "ctor_raised" /\ escaped.type = "InsufficientAreaError")
    /\ pc # "ctor_raised" => (x_bins_number >= 1 /\ y_bins_number >= 1)
    /\ (RunEnded /\ _processing_result.kind = "Success") => Len(processed) >= 1

\* C13: limit_extended_extent_image_to_base_extent_with_mask masks, then
\* crops inclusively: for a box b inside the image the result has
\* b.y_max - b.y_min + 1 rows and b.x_max - b.x_min + 1 columns, and
\* result[i][j] is full_img[b.y_min + i][b.x_min + j] where the mask is true
\* or absent and zero where it is false, also inside the crop window.
C13_MaskThenInclusiveCrop ==
    \A k \in DOMAIN result_imgs :
       LET b == base_extent_bbox_in_full_image
           result == result_imgs[k]
       IN  /\ DOMAIN result = Rect(0, b.y_max - b.y_min, 0, b.x_max - b.x_min)
           /\ \A q \in DOMAIN result :
                 LET p == <<b.y_min + q[1], b.x_min + q[2]>>
                 IN  result[q] = IF ~area_mask_img.present \/ p \in area_mask_img.pixels
                                 THEN full_img[p] ELSE 0

C13_Witness ==
    /\ Len(result_imgs) >= 1
    /\ img_size_x_pixels = 2 /\ img_size_y_pixels = 2
    /\ base_extent_bbox_in_full_image = BoundingBox(1, 1, 0, 1)
    /\ area_mask_img = [present |-> TRUE, pixels |-> {<<0, 0>>, <<1, 1>>}]
    /\ result_imgs[1] = [q \in Rect(0, 1, 0, 0) |-> IF q[1] = 1 THEN 4 ELSE 0]

\* C14: a call of limit_extended_extent_image_to_base_extent_with_mask
\* changes neither the caller's buffer nor the mask nor the bounding box, and
\* calls with the same buffer and mask return equal images.
C14_CallIsPureAndRepeatable ==
    [][pc = "limit" =>
          /\ full_img' = full_img
          /\ area_mask_img' = area_mask_img
          /\ base_extent_bbox_in_full_image' = base_extent_bbox_in_full_image
          /\ \A i, j \in DOMAIN result_imgs' : result_imgs'[i] = result_imgs'[j]]_vars

C14_Witness ==
    /\ Len(result_imgs) = 2
    /\ result_imgs[1] = result_imgs[2]
    /\ area_mask_img.present
    /\ \E p \in DOMAIN full_img : p \notin area_mask_img.pixels /\ full_img[p] # 0
    /\ \E q \in DOMAIN result_imgs[2] : result_imgs[2][q] = 0

\* C15: without an area mask no tile is skipped: the tiles are yielded with
\* tile_no 0, 1, 2, ... in sequence, an exhausted generator has yielded
\* x_bins_number * y_bins_number tiles (9 for a 3x3 grid), and a run that
\* ended with success has processed every one of them.
C15_NoMaskYieldsEveryTile ==
    (pc # "ctor_raised" /\ ~area_mask_img.present) =>
       /\ \A i \in DOMAIN yielded : yielded[i] = i - 1
       /\ Exhausted =>
             /\ Len(yielded) = x_bins_number * y_bins_number
             /\ processed = yielded
       /\ (RunEnded /\ _processing_result.kind = "Success") =>
             Len(processed) = x_bins_number * y_bins_number

C15_Witness ==
    /\ ~area_mask_img.present
    /\ tile_size_px = 2 /\ stride_px = 1
    /\ img_size_x_pixels = 4 /\ img_size_y_pixels = 4
    /\ x_bins_number = 3 /\ y_bins_number = 3
    /\ pc = "ran"
    /\ _processing_result.kind = "Success"
    /\ processed = <<0, 1, 2, 3, 4, 5, 6, 7, 8>>

\* C16: the enumeration is deterministic and restartable: every call of
\* tiles_generator starts at bin (0, 0) and visits the bins in the order the
\* parameters fix; a later call on the same task visits and yields what the
\* first call did, in the same order, and all of it once exhausted.
C16_SameSequenceEveryCall ==
    /\ IsPrefix(visited, RowMajorBins)
    /\ Len(visited) >= 1 => visited[1] = <<0, 0>>
    /\ generator_calls >= 2 =>
          /\ IsPrefix(visited, first_call.visited)
          /\ IsPrefix(yielded, first_call.yielded)
          /\ pc = "assemble" =>
                /\ visited = first_call.visited
                /\ yielded = first_call.yielded

C16_Witness ==
    /\ generator_calls = 2
    /\ pc = "assemble"
    /\ x_bins_number = 2 /\ y_bins_number = 3
    /\ visited = first_call.visited
    /\ Len(visited) = 6
    /\ yielded = first_call.yielded
    /\ Len(yielded) \in 1..5

\* C17: is_busy() returns true at every moment at which the task is Running,
\* from the start of run() until run() has stored its result and returned.
C17_BusyWhileRunning ==
    TaskState = "Running" => is_busy

C17_Witness ==
    /\ TaskState = "Running"
    /\ pc = "assemble"
    /\ Len(processed) >= 1
    /\ is_busy

\* C18 as stated: progress is reported after a tile was computed, and the
\* generator then reads the cancellation flag, once per tile: every reported
\* tile was fetched and yielded, and whenever the generator is about to move
\* on there are as many reads of the flag as progress reports.
C18_ProgressAfterTileThenCheck ==
    /\ \A k \in DOMAIN progress : \E i \in DOMAIN yielded : yielded[i] = k - 1
    /\ pc = "iter" => cancelChecks = Len(progress)

\* C18: tiles_generator reports progress tile_no / total_tiles * 100 once for
\* every bin it visits, before the mask test and before the tile image is
\* fetched (so also for bins it skips and for a tile whose fetch raises), and
\* no step of the generator reads the cancellation flag.
C18_ProgressBeforeFetchNoCheck ==
    [][/\ Len(progress') = Len(visited')
       /\ \A k \in DOMAIN progress' :
             /\ progress'[k].num = (k - 1) * 100
             /\ progress'[k].den = x_bins_number * y_bins_number
       /\ \A i \in DOMAIN fetched' : fetched'[i] <= Len(progress') - 1
       /\ \A i \in DOMAIN yielded' : yielded'[i] <= Len(progress') - 1
       /\ pc = "iter" => cancelChecks' = cancelChecks]_vars

C18_Witness ==
    /\ raised.type = "DataAccessError"
    /\ raised.tile_no = Len(progress) - 1
    /\ Len(progress) > Len(fetched)
    /\ Len(yielded) >= 1
    /\ cancelChecks = Len(yielded)
    /\ progress[Len(progress)] = [num |-> 300, den |-> 6]

\* C19: after construction the geometry and the mask are read-only: no step
\* of tiles_generator, of limit_extended_extent_image_to_base_extent_with_mask,
\* of run or of finished changes area_mask_img, the extents' image sizes,
\* base_extent_bbox_in_full_image, the bin counts, stride_px or the parameters.
C19_GeometryReadOnly ==
    [][/\ area_mask_img' = area_mask_img
       /\ base_extent_bbox_in_full_image' = base_extent_bbox_in_full_image
       /\ img_size_x_pixels' = img_size_x_pixels
       /\ img_size_y_pixels' = img_size_y_pixels
       /\ x_bins_number' = x_bins_number
       /\ y_bins_number' = y_bins_number
       /\ stride_px' = stride_px
       /\ tile_size_px' = tile_size_px]_vars

C19_Witness ==
    /\ pc = "done"
    /\ emitted # <<>>
    /\ area_mask_img.present
    /\ area_mask_img.pixels # {}
    /\ Len(processed) >= 1
    /\ Len(visited) > Len(yielded)

C21_ProgressIncreasesBelowHundred ==
    /\ Len(progress) = Len(visited)
    /\ Len(progress) >= Len(fetched)
    /\ Len(progress) >= 1 => progress[1].num = 0
    /\ \A k \in DOMAIN progress :
          /\ progress[k].den > 0
          /\ progress[k].num >= 0
          /\ progress[k].num < 100 * progress[k].den
    /\ \A i, j \in DOMAIN progress :
          i < j => progress[i].num * progress[j].den < progress[j].num * progress[i].den

C21_Witness ==
    /\ Exhausted
    /\ x_bins_number = 3 /\ y_bins_number = 2
    /\ Len(progress) = 6
    /\ Len(fetched) = 2
    /\ progress[6] = [num |-> 500, den |-> 6]

\* C22: finished(true) emits the result that run() stored and leaves it in
\* place; finished(false) replaces what run() stored by a Failed result with
\* the message 'Unhandled processing error!' and emits that, never a Success.
C22_FinishedEmitsStoredOrFailed ==
    [][(pc \in {"ran", "raised"} /\ pc' = "done") =>
          /\ Len(emitted') = Len(emitted) + 1
          /\ SubSeq(emitted', 1, Len(emitted)) = emitted
          /\ emitted'[Len(emitted')] = _processing_result'
          /\ pc = "ran" => _processing_result' = _processing_result
          /\ pc = "raised" =>
                /\ _processing_result'.kind = "Failed"
                /\ _processing_result'.message = <<"Unhandled processing error!">>
                /\ _processing_result'.exception = NoException
                /\ _processing_result' # _processing_result]_vars

C22_Witness ==
    /\ pc = "done"
    /\ IS_DEBUG
    /\ raised.type = "InferenceError"
    /\ Len(processed) >= 1
    /\ emitted = <<[kind |-> "Failed",
                    message |-> <<"Unhandled processing error!">>,
                    exception |-> NoException]>>

\* C23: the result is stored before the finished flag is set: whenever
\* _processing_finished is true, _processing_result is what _run returned or
\* the Failed result built from the exception _run raised, never the
\* placeholder of the constructor; a task whose run() was not called has the
\* placeholder and _processing_finished false.
C23_ResultBeforeFinishedFlag ==
    /\ _processing_finished =>
          /\ _processing_result # MapProcessingResultFailed(PlaceholderMessage, NoException)
          /\ IF raised # NoException
             THEN _processing_result =
                     MapProcessingResultFailed(UnhandledExceptionMessage, raised)
             ELSE /\ _processing_result \in
                        {MapProcessingResultSuccess, MapProcessingResultCanceled}
                  /\ _processing_result = MapProcessingResultCanceled <=> cancelObserved
    /\ pc = "created" =>
          /\ _processing_result = MapProcessingResultFailed(PlaceholderMessage, NoException)
          /\ ~_processing_finished

C23_Witness ==
    /\ _processing_finished
    /\ pc = "ran"
    /\ _processing_result.kind = "Failed"
    /\ _processing_result.exception.type = "DataAccessError"
    /\ Len(yielded) >= 1

\* C24: get_definition_for_params returns the definition registered for the
\* exact class of the parameters, also when they are an instance of another
\* registered class; otherwise the first registered definition of whose
\* parameters class they are an instance; it raises when there is none. Each
\* of the four model types has exactly one registered definition.
C24_ExactThenFirstInstance ==
    LET defs == get_model_definitions
    IN  /\ Len(defs) = 4
        /\ \A t \in ModelTypes :
              Cardinality({i \in DOMAIN defs : defs[i].model_type = t}) = 1
        /\ \A k \in DOMAIN lookups :
              LET params == lookups[k].arg
                  result == lookups[k].result
              IN  /\ lookups[k].call = "get_definition_for_type" =>
                        IF params \in ModelTypes
                        THEN result.ok /\ result.definition.model_type = params
                        ELSE ~result.ok
                  /\ lookups[k].call = "get_definition_for_params" =>
                        IF params.name \in RegisteredParametersClasses
                        THEN /\ result.ok
                             /\ result.definition.parameters_class = params.name
                        ELSE IF params.bases # {}
                        THEN /\ result.ok
                             /\ \E i \in DOMAIN defs :
                                   /\ defs[i] = result.definition
                                   /\ defs[i].parameters_class \in params.bases
                                   /\ \A j \in 1..(i - 1) :
                                         defs[j].parameters_class \notin params.bases
                        ELSE ~result.ok /\ result.exception = "Exception"

C24_Witness ==
    /\ Len(lookups) = 2
    /\ lookups[1].arg = [name |-> "Subclass",
                          bases |-> {"DetectionParameters", "RegressionParameters"}]
    /\ lookups[1].result.ok
    /\ lookups[1].result.definition.model_type = "REGRESSION"
    /\ lookups[2].arg = [name |-> "SegmentationParameters",
                          bases |-> {"DetectionParameters"}]
    /\ lookups[2].result.definition.model_type = "SEGMENTATION"

\* the positions of an event in the calls of one _run_inference
EventPositions(click, event) == {i \in DOMAIN click.events : click.events[i] = event}

\* C25: _run_inference emits run_model_inference_signal only when the
\* parameters were built, and then after it saved the UI to the configuration;
\* when building them raises OperationFailedException (no model loaded) it
\* neither saves nor emits and shows the error in the message bar and a box.
C25_SaveBeforeEmitOrError ==
    \A k \in DOMAIN clicks :
       LET c == clicks[k]
           saves == EventPositions(c, "_save_ui_to_config")
           emits == EventPositions(c, "run_model_inference_signal.emit")
           shown == EventPositions(c, "pushMessage") \cup
                    EventPositions(c, "QMessageBox.critical")
       IN  /\ emits # {} =>
                 /\ c.params.ok
                 /\ c.model_loaded
                 /\ Cardinality(emits) = 1
                 /\ \E i \in saves : \A j \in emits : i < j
           /\ (c.model_loaded /\ c.model_type \in {"SEGMENTATION", "DETECTION"}) =>
                 /\ Cardinality(saves) = 1 /\ Cardinality(emits) = 1
                 /\ shown = {}
                 /\ c.params.definition.model_type = c.model_type
           /\ ~c.model_loaded =>
                 /\ saves = {} /\ emits = {}
                 /\ Cardinality(shown) = 2
                 /\ c.escaped = "None"

C25_Witness ==
    /\ Len(clicks) = 2
    /\ ~clicks[1].model_loaded
    /\ clicks[1].events = <<"pushMessage", "QMessageBox.critical">>
    /\ clicks[2].model_loaded
    /\ clicks[2].model_type = "DETECTION"
    /\ clicks[2].events = <<"_save_ui_to_config", "run_model_inference_signal.emit">>
====
